---------------------------- MODULE Spec2Model ----------------------------
(***************************************************************************)
(* A model of gftools' fix engine (Lib/gftools/fix.py): the single-font    *)
(* rules, the family-wide vertical-metrics harmonisation, fix_font /       *)
(* fix_family and the FontFixer wrapper.                                   *)
(*                                                                         *)
(* A font (fontTools' TTFont) is a record: the set of table tags it holds  *)
(* and the fields of the tables the rules read or write.  Integers are     *)
(* Python integers (unbounded); fsSelection, macStyle and head.flags are   *)
(* 16-bit fields and the bit operations below work on 16 bits.             *)
(***************************************************************************)
EXTENDS Integers, Sequences, FiniteSets, TLC

VARIABLES
    font,      \* the TTFont a single rule is applied to
    last,      \* what the latest rule call did: rule, font before, result
    fonts,     \* the family (a list of TTFont) given to the family operations
    famlast,   \* what the latest family operation did
    fixer,     \* a FontFixer: font, path, saveit, messages, fixes
    disk,      \* the paths written by TTFont.save, in order
    fxlast     \* the history of the FontFixer: rule results seen, teardown done

vars == <<font, last, fonts, famlast, fixer, disk, fxlast>>

(***************************************************************************)
(* Bit operations on 16-bit fields.                                        *)
(***************************************************************************)
Pow2(i) == 2 ^ i

Bit(x, i) == (x \div Pow2(i)) % 2

\* x & m and x | m, bit by bit over the 16 bits of the field
BitAnd(x, m) ==
    LET RECURSIVE go(_)
        go(i) == IF i > 15 THEN 0
                 ELSE (IF Bit(x, i) = 1 /\ Bit(m, i) = 1 THEN Pow2(i) ELSE 0) + go(i + 1)
    IN go(0)

BitOr(x, m) ==
    LET RECURSIVE go(_)
        go(i) == IF i > 15 THEN 0
                 ELSE (IF Bit(x, i) = 1 \/ Bit(m, i) = 1 THEN Pow2(i) ELSE 0) + go(i + 1)
    IN go(0)

(***************************************************************************)
(* Sequences                                                               *)
(***************************************************************************)
Range(s) == {s[i] : i \in DOMAIN s}

\* list.remove(x): drops the first element equal to x
RemoveFirst(s, x) ==
    LET i == CHOOSE k \in DOMAIN s : s[k] = x /\ \A j \in 1..(k - 1) : s[j] # x
    IN  SubSeq(s, 1, i - 1) \o SubSeq(s, i + 1, Len(s))

RECURSIVE SumSeq(_)
SumSeq(s) == IF s = <<>> THEN 0 ELSE Head(s) + SumSeq(Tail(s))

RECURSIVE MaxSeq(_)
MaxSeq(s) == IF Len(s) = 1 THEN s[1]
             ELSE LET m == MaxSeq(Tail(s)) IN IF s[1] >= m THEN s[1] ELSE m

(***************************************************************************)
(* Style names.  A style name is a string; it is modelled as the sequence  *)
(* of its pieces, a piece being a run of letters or one blank " ".         *)
(* "ExtraBold Italic" is <<"Extra", "Bold", " ", "Italic">>.  A word is a  *)
(* sequence of pieces without a blank.                                     *)
(***************************************************************************)
\* len(): the number of characters of a piece
PieceLen(p) ==
    CASE p = " "        -> 1
      [] p = "Thin"     -> 4
      [] p = "Hairline" -> 8
      [] p = "Extra"    -> 5
      [] p = "Light"    -> 5
      [] p = "Regular"  -> 7
      [] p = "Medium"   -> 6
      [] p = "Semi"     -> 4
      [] p = "Bold"     -> 4
      [] p = "Black"    -> 5
      [] p = "Italic"   -> 6
      [] p = "Condensed" -> 9
      [] OTHER          -> 1

RECURSIVE StrLen(_)
StrLen(w) == IF w = <<>> THEN 0 ELSE PieceLen(Head(w)) + StrLen(Tail(w))

\* str.split(): the maximal runs of non-blank pieces, in order
RECURSIVE SplitFrom(_, _, _)
SplitFrom(s, i, cur) ==
    IF i > Len(s)
    THEN IF cur = <<>> THEN <<>> ELSE <<cur>>
    ELSE IF s[i] = " "
         THEN (IF cur = <<>> THEN <<>> ELSE <<cur>>) \o SplitFrom(s, i + 1, <<>>)
         ELSE SplitFrom(s, i + 1, Append(cur, s[i]))

split(s) == SplitFrom(s, 1, <<>>)

\* "Italic" in style_name: the substring test of fix_italic_angle
ContainsItalic(s) == \E i \in DOMAIN s : s[i] = "Italic"

ITALIC == <<"Italic">>
BOLD == <<"Bold">>

\* gftools.utils.font_stylename: the style name the name table gives
font_stylename(f) == f.stylename

\* gftools.utils.font_familyname
font_familyname(f) == f.familyname

\* gftools.util.google_fonts._KNOWN_WEIGHTS, an ordered mapping, without its
\* "" entry (del WEIGHT_NAMES[""])
KNOWN_WEIGHTS ==
    << <<<<"Thin">>, 100>>,
       <<<<"Hairline">>, 100>>,
       <<<<"Extra", "Light">>, 200>>,
       <<<<"Light">>, 300>>,
       <<<<"Regular">>, 400>>,
       <<<<"Medium">>, 500>>,
       <<<<"Semi", "Bold">>, 600>>,
       <<<<"Bold">>, 700>>,
       <<<<"Extra", "Bold">>, 800>>,
       <<<<"Black">>, 900>> >>

\* WEIGHT_NAMES: Hairline is reassigned in place, ExtraBlack is appended
WEIGHT_NAMES ==
    [i \in 1..(Len(KNOWN_WEIGHTS) + 1) |->
        IF i > Len(KNOWN_WEIGHTS) THEN <<<<"Extra", "Black">>, 1000>>
        ELSE IF KNOWN_WEIGHTS[i][1] = <<"Hairline">> THEN <<<<"Hairline">>, 1>>
        ELSE KNOWN_WEIGHTS[i]]

\* sorted(WEIGHT_NAMES, key=len, reverse=True): a stable sort, longest first
RECURSIVE SortedFrom(_)
SortedFrom(n) ==
    IF n = 0 THEN <<>>
    ELSE SelectSeq(WEIGHT_NAMES, LAMBDA e : StrLen(e[1]) = n) \o SortedFrom(n - 1)

SortedWeightNames ==
    SortedFrom(MaxSeq([i \in DOMAIN WEIGHT_NAMES |-> StrLen(WEIGHT_NAMES[i][1])]))

(***************************************************************************)
(* What a rule call gives back.  rv is the returned value: a bare value    *)
(* ("bare", truthy or not), None ("none"), or a (changed, messages) pair;  *)
(* exc is the exception the call ended with, "none" when it returned.      *)
(* font is the font as the call left it.                                   *)
(***************************************************************************)
Bare(b) == [kind |-> "bare", changed |-> b, messages |-> <<>>]
None == [kind |-> "none", changed |-> FALSE, messages |-> <<>>]
Pair(b, msgs) == [kind |-> "pair", changed |-> b, messages |-> msgs]

Ret(f, rv) == [font |-> f, rv |-> rv, exc |-> "none"]
Raise(f, e) == [font |-> f, rv |-> None, exc |-> e]


(***************************************************************************)
(* Single-font rules                                                       *)
(***************************************************************************)
\* 'tag' in ttFont
Has(f, tag) == tag \in f.tables

UNWANTED_TABLES == {"FFTM", "TTFA", "TSI0", "TSI1", "TSI2", "TSI3", "TSI5", "prop", "Debg"}

\* a variant that removes whatever is requested and present
remove_tables_Requested(f, tables) ==
    LET tables_to_remove0 == IF tables = {} THEN UNWANTED_TABLES ELSE tables
        font_tables == f.tables
        tables_to_remove == font_tables \cap tables_to_remove0
    IN  IF tables_to_remove = {} THEN f
        ELSE [f EXCEPT !.tables = f.tables \ tables_to_remove]

\* tables = {} stands for tables=None (and for any empty iterable: "not tables")
remove_tables(f, tables) ==
    LET tables_to_remove0 == IF tables = {} THEN UNWANTED_TABLES ELSE tables
        font_tables == f.tables
        tables_to_remove == (UNWANTED_TABLES \cap font_tables) \cap tables_to_remove0
    IN  IF tables_to_remove = {} THEN f
        ELSE [f EXCEPT !.tables = f.tables \ tables_to_remove]

add_dummy_dsig(f) == [f EXCEPT !.tables = f.tables \cup {"DSIG"}]

fix_unhinted_font(f) == [f EXCEPT !.tables = f.tables \cup {"gasp", "prep"}]

fix_hinted_font(f) ==
    IF ~Has(f, "fpgm")
    THEN Ret(f, Pair(FALSE, <<"Skipping. Font is not hinted.">>))
    ELSE LET old == f.head_flags
             new == BitOr(f.head_flags, Pow2(3))
         IN  Ret([f EXCEPT !.head_flags = new], Bare(new # old))

fix_fs_type(f) ==
    LET old == f.os2_fsType
    IN  Ret([f EXCEPT !.os2_fsType = 0], Bare(old # 0))

\* int(v) of a float: truncation toward zero.  Axis values are kept in tenths.
int(v) == IF v >= 0 THEN v \div 10 ELSE -((-v) \div 10)

\* {a.axisTag: a.defaultValue for a in fvar.axes}.get(tag, None): the last axis
\* with the tag decides; <<>> stands for None
AxisDefault(f, tag) ==
    LET hits == SelectSeq(f.fvar_axes, LAMBDA a : a.axisTag = tag)
    IN  IF hits = <<>> THEN <<>> ELSE <<hits[Len(hits)].defaultValue>>

\* a variant that reads the style name before the wght axis
fix_weight_class_StyleFirst(f) ==
    LET old_weight_class == f.os2_usWeightClass
        v == IF Has(f, "fvar") THEN AxisDefault(f, "wght") ELSE <<>>
        tokens == split(font_stylename(f))
        hits == SelectSeq(SortedWeightNames, LAMBDA e : e[1] \in Range(tokens))
    IN  IF hits # <<>>
        THEN Ret([f EXCEPT !.os2_usWeightClass = hits[1][2]], Bare(hits[1][2] # old_weight_class))
        ELSE IF v # <<>>
        THEN Ret([f EXCEPT !.os2_usWeightClass = int(v[1])], Bare(int(v[1]) # old_weight_class))
        ELSE IF ITALIC \in Range(tokens)
        THEN Ret([f EXCEPT !.os2_usWeightClass = 400], Bare(400 # old_weight_class))
        ELSE Raise(f, "ValueError")

fix_weight_class(f) ==
    LET old_weight_class == f.os2_usWeightClass
        v == IF Has(f, "fvar") THEN AxisDefault(f, "wght") ELSE <<>>
        tokens == split(font_stylename(f))
        hits == SelectSeq(SortedWeightNames, LAMBDA e : e[1] \in Range(tokens))
    IN  IF v # <<>>
        THEN Ret([f EXCEPT !.os2_usWeightClass = int(v[1])], Bare(int(v[1]) # old_weight_class))
        ELSE IF hits # <<>>
        THEN Ret([f EXCEPT !.os2_usWeightClass = hits[1][2]], Bare(hits[1][2] # old_weight_class))
        ELSE IF ITALIC \in Range(tokens)
        THEN Ret([f EXCEPT !.os2_usWeightClass = 400], Bare(400 # old_weight_class))
        ELSE Raise(f, "ValueError")

\* a variant that sets the regular bit whenever the style is not bold
fix_fs_selection_RegularUnlessBold(f) ==
    LET tokens == Range(split(font_stylename(f)))
        old_selection == f.os2_fsSelection
        s0 == BitAnd(old_selection, Pow2(7))
        s1 == IF ITALIC \in tokens THEN BitOr(s0, Pow2(0)) ELSE s0
        s2 == IF BOLD \in tokens THEN BitOr(s1, Pow2(5)) ELSE s1
        fs_selection == IF BOLD \notin tokens THEN BitOr(s2, Pow2(6)) ELSE s2
    IN  Ret([f EXCEPT !.os2_fsSelection = fs_selection], Bare(old_selection # fs_selection))

fix_fs_selection(f) ==
    LET tokens == Range(split(font_stylename(f)))
        old_selection == f.os2_fsSelection
        s0 == BitAnd(old_selection, Pow2(7))
        s1 == IF ITALIC \in tokens THEN BitOr(s0, Pow2(0)) ELSE s0
        s2 == IF BOLD \in tokens THEN BitOr(s1, Pow2(5)) ELSE s1
        fs_selection == IF tokens \cap {BOLD, ITALIC} = {} THEN BitOr(s2, Pow2(6)) ELSE s2
    IN  Ret([f EXCEPT !.os2_fsSelection = fs_selection], Bare(old_selection # fs_selection))

fix_mac_style(f) ==
    LET old_mac_style == f.head_macStyle
        tokens == Range(split(font_stylename(f)))
        m1 == IF ITALIC \in tokens THEN BitOr(0, Pow2(1)) ELSE 0
        mac_style == IF BOLD \in tokens THEN BitOr(m1, Pow2(0)) ELSE m1
    IN  Ret([f EXCEPT !.head_macStyle = mac_style], Bare(old_mac_style # mac_style))

fix_italic_angle(f) ==
    IF ~ContainsItalic(font_stylename(f)) /\ f.post_italicAngle # 0
    THEN Ret([f EXCEPT !.post_italicAngle = 0], Bare(TRUE))
    ELSE Ret(f, Bare(FALSE))

(***************************************************************************)
(* cmap.  font.cmap is the list cmap.tables; a subtable is a record of its *)
(* platformID, platEncID and cmap, a function from code points to glyph    *)
(* names.  0 stands for "no subtable" (None) where an index is expected.   *)
(***************************************************************************)
\* fontTools' table__c_m_a_p.getcmap: the index of the first subtable with the ids
getcmap(tables, platformID, platEncID) ==
    LET hits == {i \in DOMAIN tables :
                    tables[i].platformID = platformID /\ tables[i].platEncID = platEncID}
    IN  IF hits = {} THEN 0 ELSE CHOOSE i \in hits : \A j \in hits : i <= j

\* the first of (3, 1), (0, 3), (3, 0) that the font has
Ucs2Index(tables) ==
    IF getcmap(tables, 3, 1) # 0 THEN getcmap(tables, 3, 1)
    ELSE IF getcmap(tables, 0, 3) # 0 THEN getcmap(tables, 0, 3)
    ELSE getcmap(tables, 3, 0)

\* gftools.utils.get_unencoded_glyphs: the glyphs, .notdef apart, that the
\* font's Unicode subtable (UCS-4, else UCS-2) does not map; none when the
\* font has neither subtable
get_unencoded_glyphs(f) ==
    LET i4 == getcmap(f.cmap, 3, 10)
        i  == IF i4 # 0 THEN i4 ELSE Ucs2Index(f.cmap)
    IN  IF i = 0 THEN {}
        ELSE (Range(f.glyphOrder) \ Range(f.cmap[i].cmap)) \ {".notdef"}

PUA_A == 983040    \* 0xF0000

\* m[cp] = glyph
MapSet(m, cp, glyph) ==
    [c \in (DOMAIN m) \cup {cp} |-> IF c = cp THEN glyph ELSE m[c]]

\* for glyphID, glyph in enumerate(font.getGlyphOrder()): ... from position k on
RECURSIVE MapUnencoded(_, _, _, _)
MapUnencoded(m, order, unencoded, k) ==
    IF k > Len(order) THEN m
    ELSE MapUnencoded(
            IF order[k] \in unencoded THEN MapSet(m, PUA_A + (k - 1), order[k]) ELSE m,
            order, unencoded, k + 1)

fix_pua(f) ==
    LET unencoded_glyphs == get_unencoded_glyphs(f)
        ucs2 == Ucs2Index(f.cmap)
        new4 == [platformID |-> 3, platEncID |-> 10,
                 cmap |-> IF ucs2 # 0 THEN f.cmap[ucs2].cmap ELSE <<>>]
        tables1 == IF getcmap(f.cmap, 3, 10) = 0 THEN Append(f.cmap, new4) ELSE f.cmap
        i4 == getcmap(tables1, 3, 10)
        tables2 == [tables1 EXCEPT ![i4].cmap =
                        MapUnencoded(tables1[i4].cmap, f.glyphOrder, unencoded_glyphs, 1)]
    IN  IF unencoded_glyphs = {} THEN Ret(f, None)
        ELSE Ret([f EXCEPT !.cmap = tables2], Bare(TRUE))

(***************************************************************************)
(* Fixed pitch                                                             *)
(***************************************************************************)
\* [chr(c) for c in range(65, 91)]
Uppercase ==
    <<"A", "B", "C", "D", "E", "F", "G", "H", "I", "J", "K", "L", "M",
      "N", "O", "P", "Q", "R", "S", "T", "U", "V", "W", "X", "Y", "Z">>

RECURSIVE SumWidths(_, _)
SumWidths(metrics, gs) ==
    IF gs = {} THEN 0
    ELSE LET g == CHOOSE x \in gs : TRUE IN metrics[g] + SumWidths(metrics, gs \ {g})

\* fontTools.misc.fixedTools.otRound(n / d) = floor(n / d + 0.5), for d > 0
otRoundDiv(n, d) == (2 * n + d) \div (2 * d)

fix_isFixedPitch(f) ==
    LET metrics == f.hmtx
        same_width == {metrics[c] : c \in Range(Uppercase) \cap DOMAIN metrics}
        \* the monospace branch, step by step
        fixed == f.post_isFixedPitch = 1
        m1 == IF fixed THEN <<"Skipping isFixedPitch is set correctly">>
              ELSE <<"Font is monospace. Updating isFixedPitch to 0">>
        f1 == [f EXCEPT !.post_isFixedPitch = 1]
        c1 == ~fixed
        familyType == f.os2_panose_bFamilyType
        expected == IF familyType = 2 THEN 9
                    ELSE IF familyType = 3 \/ familyType = 5 THEN 3
                    ELSE 0    \* None
        f2 == IF familyType = 0
              THEN [f1 EXCEPT !.os2_panose_bFamilyType = 2, !.os2_panose_bProportion = 9]
              ELSE IF expected # 0 THEN [f1 EXCEPT !.os2_panose_bProportion = expected]
              ELSE f1
        m2 == IF familyType = 0
              THEN Append(m1, "Font is monospace but panose fields seems to be not set.")
              ELSE IF expected = 0 THEN m1
              ELSE IF f.os2_panose_bProportion = expected
              THEN Append(m1, "Skipping OS/2.panose.bProportion is set correctly")
              ELSE Append(m1, "Font is monospace. Updating OS/2.panose.bProportion")
        c2 == c1 \/ familyType = 0
                 \/ (expected # 0 /\ f.os2_panose_bProportion # expected)
        wide == {g \in DOMAIN metrics : metrics[g] > 0}
        width_max == CHOOSE w \in {metrics[g] : g \in wide} :
                        \A g \in wide : metrics[g] <= w
        m3 == Append(m2, "Skipping hhea.advanceWidthMax is set correctly")
        avg_width == otRoundDiv(SumWidths(metrics, wide), Cardinality(wide))
        m4 == IF avg_width = f.os2_xAvgCharWidth
              THEN Append(m3, "Skipping OS/2.xAvgCharWidth is set correctly")
              ELSE Append(m3, "Font is monospace. Updating OS/2.xAvgCharWidth")
        c4 == c2 \/ avg_width # f.os2_xAvgCharWidth
    IN  IF ~(Range(Uppercase) \subseteq DOMAIN metrics) THEN Raise(f, "KeyError")
        ELSE IF Cardinality(same_width) = 1
        THEN IF wide = {} THEN Raise(f2, "ValueError")    \* max() of an empty list
             ELSE IF f.hhea_advanceWidthMax # width_max
             THEN Raise(f2, "NameError")                  \* messsages is not defined
             ELSE Ret([f2 EXCEPT !.os2_xAvgCharWidth = avg_width], Pair(c4, m4))
        ELSE Ret([f EXCEPT !.post_isFixedPitch = 0, !.os2_panose_bProportion = 0],
                 Pair(f.post_isFixedPitch # 0 \/ f.os2_panose_bProportion # 0, <<>>))

(***************************************************************************)
(* Name records.  font.names is the list name.names; a record holds its    *)
(* nameID, platformID, platEncID, langID and string.                       *)
(***************************************************************************)
\* fontTools' table__n_a_m_e.getName: the first record with the ids, <<>> for None
getName(names, nameID, platformID, platEncID, langID) ==
    LET hits == SelectSeq(names, LAMBDA r :
                    /\ r.nameID = nameID /\ r.platformID = platformID
                    /\ r.platEncID = platEncID /\ r.langID = langID)
    IN  IF hits = <<>> THEN <<>> ELSE <<hits[1]>>

keep_ids == {1, 2, 3, 4, 5, 6, 16, 17, 18, 20, 21, 22, 25}

\* one turn of the loop body for name id n; skip is the set of ids left alone
DropMacStep(st, skip, n) ==
    LET name == IF n \in skip THEN <<>> ELSE getName(st.names, n, 1, 0, 0)
    IN  IF name # <<>>
        THEN [names |-> RemoveFirst(st.names, name[1]), changed |-> TRUE]
        ELSE st

\* for n in range(255): ... from n on.  A turn for an id that no record has
\* finds nothing (getName gives None), so the loop goes on at the next id
\* that some record has.
RECURSIVE DropMacFrom(_, _, _, _)
DropMacFrom(names, changed, skip, n) ==
    LET ids == {names[i].nameID : i \in DOMAIN names} \cap (n..254)
        m == CHOOSE x \in ids : \A y \in ids : x <= y
        st == DropMacStep([names |-> names, changed |-> changed], skip, m)
    IN  IF ids = {} THEN [names |-> names, changed |-> changed]
        ELSE DropMacFrom(st.names, st.changed, skip, m + 1)

drop_superfluous_mac_names(f) ==
    LET r == DropMacFrom(f.names, FALSE, keep_ids, 0)
    IN  Ret([f EXCEPT !.names = r.names], Bare(r.changed))

drop_mac_names(f) ==
    LET r == DropMacFrom(f.names, FALSE, {}, 0)
    IN  Ret([f EXCEPT !.names = r.names], Bare(r.changed))

(***************************************************************************)
(* Vertical metrics of a family.  A family is a list of fonts; the         *)
(* operations change the fonts of the list in place.                       *)
(***************************************************************************)
\* gftools.utils.typo_metrics_enabled: fsSelection bit 7
typo_metrics_enabled(f) == Bit(f.os2_fsSelection, 7) = 1

\* gftools.utils.family_bounding_box: the least yMin and the greatest yMax of
\* the fonts' glyph extents
family_bounding_box(ttFonts) ==
    LET lows == {ttFonts[i].head_yMin : i \in DOMAIN ttFonts}
        highs == {ttFonts[i].head_yMax : i \in DOMAIN ttFonts}
    IN  << CHOOSE y \in lows : \A z \in lows : y <= z,
           CHOOSE y \in highs : \A z \in highs : y >= z >>

abs(x) == IF x < 0 THEN -x ELSE x

\* a variant that leaves out the hhea line gap
copy_vertical_metrics_NoLineGap(src_font, dst_font) ==
    [dst_font EXCEPT
        !.os2_usWinAscent = src_font.os2_usWinAscent,
        !.os2_usWinDescent = src_font.os2_usWinDescent,
        !.os2_sTypoAscender = src_font.os2_sTypoAscender,
        !.os2_sTypoDescender = src_font.os2_sTypoDescender,
        !.os2_sTypoLineGap = src_font.os2_sTypoLineGap,
        !.hhea_ascent = src_font.hhea_ascent,
        !.hhea_descent = src_font.hhea_descent]

copy_vertical_metrics(src_font, dst_font) ==
    [dst_font EXCEPT
        !.os2_usWinAscent = src_font.os2_usWinAscent,
        !.os2_usWinDescent = src_font.os2_usWinDescent,
        !.os2_sTypoAscender = src_font.os2_sTypoAscender,
        !.os2_sTypoDescender = src_font.os2_sTypoDescender,
        !.os2_sTypoLineGap = src_font.os2_sTypoLineGap,
        !.hhea_ascent = src_font.hhea_ascent,
        !.hhea_descent = src_font.hhea_descent,
        !.hhea_lineGap = src_font.hhea_lineGap]

\* next((f for f in ttFonts if font_stylename(f) == "Regular"), ttFonts[0]),
\* as an index of the list
SourceIndex(ttFonts) ==
    LET regular == {i \in DOMAIN ttFonts : font_stylename(ttFonts[i]) = <<"Regular">>}
    IN  IF regular = {} THEN 1 ELSE CHOOSE i \in regular : \A j \in regular : i <= j

\* a variant that takes the bounding box of the source font alone
fix_vertical_metrics_SourceBox(ttFonts) ==
    LET s == SourceIndex(ttFonts)
        f0 == ttFonts[s]
        f1 == IF ~typo_metrics_enabled(f0)
              THEN [f0 EXCEPT !.os2_fsSelection = BitOr(@, Pow2(7)),
                              !.os2_sTypoAscender = f0.os2_usWinAscent,
                              !.os2_sTypoDescender = -f0.os2_usWinDescent,
                              !.os2_sTypoLineGap = 0]
              ELSE f0
        f2 == [f1 EXCEPT !.hhea_ascent = f1.os2_sTypoAscender,
                         !.hhea_descent = f1.os2_sTypoDescender,
                         !.hhea_lineGap = f1.os2_sTypoLineGap]
        box == family_bounding_box(<<f0>>)
        src_font == [f2 EXCEPT !.os2_usWinAscent = box[2],
                               !.os2_usWinDescent = abs(box[1])]
    IN  IF ttFonts = <<>> THEN [fonts |-> ttFonts, exc |-> "IndexError"]
        ELSE [fonts |->
                [i \in DOMAIN ttFonts |->
                    copy_vertical_metrics(src_font,
                        [(IF i = s THEN src_font ELSE ttFonts[i])
                            EXCEPT !.os2_fsSelection = BitOr(@, Pow2(7))])],
              exc |-> "none"]

\* gives the list as the call leaves it; an empty list raises IndexError
fix_vertical_metrics(ttFonts) ==
    LET s == SourceIndex(ttFonts)
        f0 == ttFonts[s]
        f1 == IF ~typo_metrics_enabled(f0)
              THEN [f0 EXCEPT !.os2_fsSelection = BitOr(@, Pow2(7)),
                              !.os2_sTypoAscender = f0.os2_usWinAscent,
                              !.os2_sTypoDescender = -f0.os2_usWinDescent,
                              !.os2_sTypoLineGap = 0]
              ELSE f0
        f2 == [f1 EXCEPT !.hhea_ascent = f1.os2_sTypoAscender,
                         !.hhea_descent = f1.os2_sTypoDescender,
                         !.hhea_lineGap = f1.os2_sTypoLineGap]
        box == family_bounding_box(ttFonts)
        src_font == [f2 EXCEPT !.os2_usWinAscent = box[2],
                               !.os2_usWinDescent = abs(box[1])]
    IN  IF ttFonts = <<>> THEN [fonts |-> ttFonts, exc |-> "IndexError"]
        ELSE [fonts |->
                [i \in DOMAIN ttFonts |->
                    copy_vertical_metrics(src_font,
                        [(IF i = s THEN src_font ELSE ttFonts[i])
                            EXCEPT !.os2_fsSelection = BitOr(@, Pow2(7))])],
              exc |-> "none"]

\* {font_stylename(f): f for f in fs}: of the fonts with one style name the
\* last is kept, at the place of the first; the indices kept, in dict order
StyleDict(fs) ==
    LET firsts == {i \in DOMAIN fs :
                      \A j \in 1..(i - 1) : font_stylename(fs[j]) # font_stylename(fs[i])}
    IN  [i \in firsts |->
            CHOOSE j \in DOMAIN fs :
                /\ font_stylename(fs[j]) = font_stylename(fs[i])
                /\ \A k \in (j + 1)..Len(fs) : font_stylename(fs[k]) # font_stylename(fs[i])]

\* gf_fonts is the family the catalog holds (download_family_from_Google_Fonts)
inherit_vertical_metrics(ttFonts, gf_fonts) ==
    LET gf == StyleDict(gf_fonts)
        gf_fallback == gf_fonts[gf[1]]
        mine == StyleDict(ttFonts)
        Src(f) ==
            LET same == {i \in DOMAIN gf :
                            font_stylename(gf_fonts[i]) = font_stylename(f)}
            IN  IF same # {} THEN gf_fonts[gf[CHOOSE i \in same : TRUE]] ELSE gf_fallback
        Inherit(f) ==
            LET c == copy_vertical_metrics(Src(f), f)
            IN  IF typo_metrics_enabled(Src(f))
                THEN [c EXCEPT !.os2_fsSelection = BitOr(@, Pow2(7))]
                ELSE c
    IN  IF ttFonts = <<>> \/ gf_fonts = <<>>
        THEN [fonts |-> ttFonts, exc |-> "IndexError"]
        ELSE [fonts |->
                [i \in DOMAIN ttFonts |->
                    IF \E k \in DOMAIN mine : mine[k] = i
                    THEN Inherit(ttFonts[i]) ELSE ttFonts[i]],
              exc |-> "none"]

(***************************************************************************)
(* COLR repair.  The result names the font object the call returns: same   *)
(* says that it is the object that was passed in (changed in place), not   *)
(* a new one.                                                              *)
(***************************************************************************)
Same(f) == [font |-> f, same |-> TRUE, exc |-> "none"]

\* list.insert(1, x)
Insert1(s, x) == IF s = <<>> THEN <<x>> ELSE <<s[1], x>> \o Tail(s)

\* nanoemoji's load_fully decompiles every table of the font it is given and
\* returns that font; reorder_glyphs sets the glyph order
_swap_empty_glyph_to_gid1(f) ==
    LET glyph_order == f.glyphOrder
        empties == {k \in DOMAIN glyph_order : f.glyf[glyph_order[k]] = 0}
        empty_glyph == glyph_order[CHOOSE k \in empties : \A j \in empties : k <= j]
    IN  IF empties = {} THEN [font |-> f, same |-> TRUE, exc |-> "ValueError"]
        ELSE Same([f EXCEPT !.glyphOrder = Insert1(RemoveFirst(glyph_order, empty_glyph),
                                                   empty_glyph)])

_add_empty_glyph_to_gid1(f) ==
    LET glyph_order == f.glyphOrder
        empty_name == IF ".null" \notin Range(glyph_order) THEN ".null" ELSE "emptyglyph"
    IN  IF empty_name \in Range(glyph_order)
        THEN [font |-> f, same |-> TRUE, exc |-> "AssertionError"]
        ELSE Same([f EXCEPT
                      !.glyf = [g \in (DOMAIN f.glyf) \cup {empty_name} |->
                                   IF g = empty_name THEN 0 ELSE f.glyf[g]],
                      !.hmtx = [g \in (DOMAIN f.hmtx) \cup {empty_name} |->
                                   IF g = empty_name THEN 0 ELSE f.hmtx[g]],
                      !.glyphOrder = Insert1(glyph_order, empty_name)])

\* ttfont["glyf"] raises KeyError when the font has no glyf table
fix_colr_v0_gid1(f) ==
    IF f.maxp_numGlyphs < 2 THEN Same(f)
    ELSE IF ~Has(f, "glyf") THEN [font |-> f, same |-> TRUE, exc |-> "KeyError"]
    ELSE IF f.glyf[f.glyphOrder[2]] = 0 THEN Same(f)
    ELSE IF \E g \in Range(f.glyphOrder) : f.glyf[g] = 0
    THEN _swap_empty_glyph_to_gid1(f)
    ELSE _add_empty_glyph_to_gid1(f)

\* onDisk is the font in the file f was read from.  maximum_color builds a
\* font with an SVG table from that file; the result is a new TTFont.
fix_colr_v1_add_svg(f, onDisk) ==
    IF Has(f, "SVG ") THEN Same(f)
    ELSE [font |-> [onDisk EXCEPT !.tables = @ \cup {"SVG "}], same |-> FALSE,
          exc |-> "none"]

fix_colr_font(f, onDisk) ==
    IF ~Has(f, "COLR") THEN [font |-> f, same |-> TRUE, exc |-> "AssertionError"]
    ELSE IF f.colr_version = 0 THEN fix_colr_v0_gid1(f)
    ELSE IF f.colr_version = 1 THEN fix_colr_v1_add_svg(f, onDisk)
    ELSE [font |-> f, same |-> TRUE, exc |-> "NotImplementedError"]

(***************************************************************************)
(* fix_font and fix_family.  The naming service (axisregistry's            *)
(* build_name_table, build_fvar_instances, build_variations_ps_name) is    *)
(* outside the repository: build_name_table sets the family name it is     *)
(* given and build_variations_ps_name adds name record 25; what else they  *)
(* write is not read by the rules here.                                    *)
(***************************************************************************)
\* new_name = "" stands for None; raises when the font has no family name
rename_font(f, new_name) ==
    IF font_familyname(f) = "" THEN Raise(f, "Exception")
    ELSE Ret([f EXCEPT !.familyname = new_name], None)

VarPsName == [nameID |-> 25, platformID |-> 3, platEncID |-> 1, langID |-> 1033,
              string |-> "ps"]

\* a variant that only lowers a version above 4
SetOs2Version_ClampOnly(f) == IF f.os2_version > 4 THEN [f EXCEPT !.os2_version = 4] ELSE f

\* if font["OS/2"].version > 1: font["OS/2"].version = 4
SetOs2Version(f) == IF f.os2_version > 1 THEN [f EXCEPT !.os2_version = 4] ELSE f

\* if "fpgm" in font: fix_hinted_font(font) else: fix_unhinted_font(font)
FixHinting(f) == IF Has(f, "fpgm") THEN fix_hinted_font(f).font ELSE fix_unhinted_font(f)

\* a variable font without name record 25 gets one
AddVariationsPsName(f) ==
    IF Has(f, "fvar") /\ getName(f.names, 25, 3, 1, 1033) = <<>>
    THEN [f EXCEPT !.names = Append(@, VarPsName)]
    ELSE f

\* the fixes of fix_font that come before the COLR repair
FixFontHead(f, new_family_name) ==
    LET r0 == IF new_family_name # "" THEN rename_font(f, new_family_name) ELSE Ret(f, None)
    IN  IF r0.exc # "none" THEN r0
        ELSE Ret(AddVariationsPsName(FixHinting(SetOs2Version(r0.font))), None)

\* fix_italic_angle after fix_weight_class, which may have raised
ThenItalicAngle(r) ==
    IF r.exc # "none" THEN r ELSE Ret(fix_italic_angle(r.font).font, None)

\* the source fixes, in order (fix_nametable and fix_fvar_instances hand the
\* font to the naming service and log what it changed)
SourceFixes(f) ==
    ThenItalicAngle(
        fix_weight_class(
            fix_mac_style(fix_fs_selection(fix_fs_type(remove_tables(f, {})).font).font).font))

\* if "COLR" in font: font = fix_colr_font(font)
ColrStep(f, onDisk) == IF Has(f, "COLR") THEN fix_colr_font(f, onDisk) ELSE Same(f)

\* caller is the font the caller passed, as the call leaves it; local is the
\* font the name font is bound to at the end.  h is the font before the COLR
\* repair, c what the repair returned, s what the source fixes did to it.
FixFontResult(h, c, s) ==
    [caller |-> IF c.same THEN s.font ELSE h.font, local |-> s.font, exc |-> s.exc]

FixFontSource(h, c, include_source_fixes) ==
    IF c.exc # "none" THEN [caller |-> c.font, local |-> c.font, exc |-> c.exc]
    ELSE FixFontResult(h, c,
            IF include_source_fixes THEN SourceFixes(c.font) ELSE Ret(c.font, None))

FixFontTail(h, onDisk, include_source_fixes) ==
    IF h.exc # "none" THEN [caller |-> h.font, local |-> h.font, exc |-> h.exc]
    ELSE FixFontSource(h, ColrStep(h.font, onDisk), include_source_fixes)

fix_font(f, onDisk, include_source_fixes, new_family_name) ==
    FixFontTail(FixFontHead(f, new_family_name), onDisk, include_source_fixes)

\* gftools.utils.validate_family: the fonts must share one family name
validate_family(fs) ==
    \A i, j \in DOMAIN fs : font_familyname(fs[i]) = font_familyname(fs[j])

\* for font in fonts: fix_font(font, ...), from font k on; stops at the first
\* font that raises.  r is what fix_font did to font k.
RECURSIVE FixEach(_, _, _, _, _)
FixEachStep(fs, files, include_source_fixes, new_family_name, k, r) ==
    IF r.exc # "none" THEN [fonts |-> [fs EXCEPT ![k] = r.caller], exc |-> r.exc]
    ELSE FixEach([fs EXCEPT ![k] = r.caller], files, include_source_fixes,
                 new_family_name, k + 1)

FixEach(fs, files, include_source_fixes, new_family_name, k) ==
    IF k > Len(fs) THEN [fonts |-> fs, exc |-> "none"]
    ELSE FixEachStep(fs, files, include_source_fixes, new_family_name, k,
                     fix_font(fs[k], files[k], include_source_fixes, new_family_name))

\* gftools.stat.gen_stat_tables: every font gets a STAT table
gen_stat_tables(fs) == [i \in DOMAIN fs |-> [fs[i] EXCEPT !.tables = @ \cup {"STAT"}]]

\* fix_family after fix_vertical_metrics: v is what it gave
FamilyStat(v) ==
    [fonts |-> IF \A k \in DOMAIN v.fonts : Has(v.fonts[k], "fvar")
               THEN gen_stat_tables(v.fonts) ELSE v.fonts,
     exc |-> v.exc, stage |-> "metrics"]

\* fix_family after the catalog lookup: i is the family as the lookup left it
FamilyMetrics(i) ==
    IF i.exc # "none" THEN [fonts |-> i.fonts, exc |-> i.exc, stage |-> "metrics"]
    ELSE FamilyStat(fix_vertical_metrics(i.fonts))

\* a variant that lets the FileNotFoundError of the lookup through
FamilyCatalog_Uncaught(fs, catalog, gf_fonts) ==
    IF catalog = "known" THEN inherit_vertical_metrics(fs, gf_fonts)
    ELSE IF catalog = "nokey" THEN [fonts |-> fs, exc |-> "FileNotFoundError"]
    ELSE [fonts |-> fs, exc |-> "none"]

\* the try block: catalog is what the reference catalog answers for the
\* family: "known" (Google_Fonts_has_family is true and the download gives
\* gf_fonts), "unknown" (it is false) or "nokey" (the lookup raises
\* FileNotFoundError, which is caught)
FamilyCatalog(fs, catalog, gf_fonts) ==
    IF catalog = "known" THEN inherit_vertical_metrics(fs, gf_fonts)
    ELSE [fonts |-> fs, exc |-> "none"]

\* fix_family after the fix_font loop: e is what the loop gave
FamilySourceFixes(e, include_source_fixes, catalog, gf_fonts) ==
    IF e.exc # "none" THEN [fonts |-> e.fonts, exc |-> e.exc, stage |-> "fix_font"]
    ELSE IF ~include_source_fixes
    THEN [fonts |-> e.fonts, exc |-> "none", stage |-> "fix_font"]
    ELSE FamilyMetrics(FamilyCatalog(e.fonts, catalog, gf_fonts))

\* files[k] is the font in the file fs[k] was read from.  stage is how far the
\* call got: "validate", "fix_font", or "metrics" once every font went
\* through fix_font and the source fixes were asked for.
fix_family(fs, files, include_source_fixes, new_family_name, catalog, gf_fonts) ==
    IF ~validate_family(fs)
    THEN [fonts |-> fs, exc |-> "ValueError", stage |-> "validate"]
    ELSE FamilySourceFixes(FixEach(fs, files, include_source_fixes, new_family_name, 1),
                           include_source_fixes, catalog, gf_fonts)

(***************************************************************************)
(* FontFixer.  A fixer holds its font, its path, saveit, messages and the  *)
(* list fixes of rules (by name).  report and verbose only decide what is  *)
(* printed.                                                                *)
(***************************************************************************)
\* f(self.font) for the rule named rule
ApplyRule(rule, f) ==
    CASE rule = "fix_hinted_font" -> fix_hinted_font(f)
      [] rule = "fix_fs_type" -> fix_fs_type(f)
      [] rule = "fix_weight_class" -> fix_weight_class(f)
      [] rule = "fix_fs_selection" -> fix_fs_selection(f)
      [] rule = "fix_mac_style" -> fix_mac_style(f)
      [] rule = "fix_italic_angle" -> fix_italic_angle(f)
      [] rule = "fix_pua" -> fix_pua(f)
      [] rule = "fix_isFixedPitch" -> fix_isFixedPitch(f)
      [] rule = "drop_superfluous_mac_names" -> drop_superfluous_mac_names(f)
      [] rule = "drop_mac_names" -> drop_mac_names(f)

\* FontFixer.__init__(path, fixes=fixes); onDisk is the font the file holds
FontFixer_init(path, onDisk, fixes) ==
    [font |-> onDisk, path |-> path, saveit |-> FALSE, messages |-> <<>>,
     fixes |-> fixes, pc |-> "live"]

\* a variant in which saveit is what the last rule reported
FixerTurn_LastRule(fx, r) ==
    [fx EXCEPT !.font = r.font,
               !.messages = IF r.rv.kind = "pair" THEN @ \o r.rv.messages ELSE @,
               !.saveit = r.rv.changed]

\* one turn of the loop of fix(), for a rule that returned r.rv
FixerTurn(fx, r) ==
    [fx EXCEPT !.font = r.font,
               !.messages = IF r.rv.kind = "pair" THEN @ \o r.rv.messages ELSE @,
               !.saveit = IF r.rv.changed THEN TRUE ELSE @]

\* for f in self.fixes: ..., from rule k on.  trace lists what the rules
\* called so far gave; a rule that raises ends the call with its exception,
\* the font as the rule left it.
RECURSIVE FixerLoop(_, _, _)
FixerLoopStep(fx, k, trace, r) ==
    IF r.exc # "none"
    THEN [fixer |-> [fx EXCEPT !.font = r.font], exc |-> r.exc,
          trace |-> Append(trace, [rv |-> r.rv, exc |-> r.exc])]
    ELSE FixerLoop(FixerTurn(fx, r), k + 1, Append(trace, [rv |-> r.rv, exc |-> r.exc]))

FixerLoop(fx, k, trace) ==
    IF k > Len(fx.fixes) THEN [fixer |-> fx, exc |-> "none", trace |-> trace]
    ELSE FixerLoopStep(fx, k, trace, ApplyRule(fx.fixes[k], fx.font))

FontFixer_fix(fx) == FixerLoop(fx, 1, <<>>)

\* FontFixer.__del__: the files written, after those of written
FontFixer_del(fx, written) ==
    IF fx.saveit THEN Append(written, [path |-> <<fx.path, ".fix">>, font |-> fx.font])
    ELSE written

(***************************************************************************)
(* The fonts the rules are run on.  BaseFont is a monospace Regular font   *)
(* that every rule leaves alone; each input set varies the fields one      *)
(* group of rules reads.                                                   *)
(***************************************************************************)
MaxNames == 2      \* name records in an input name table
MaxGlyphs == 3     \* glyphs in an input glyph order, .notdef included

LetterGlyphs == <<".notdef">> \o Uppercase

BaseFont ==
    [ tables |-> {"OS/2", "head", "hhea", "post", "name", "cmap", "hmtx", "glyf", "maxp",
                  "gasp", "prep"},
      path |-> "Base.ttf",
      familyname |-> "Family",
      stylename |-> <<"Regular">>,
      fvar_axes |-> <<>>,
      colr_version |-> 0,
      os2_version |-> 4,
      os2_fsType |-> 0,
      os2_usWeightClass |-> 400,
      os2_fsSelection |-> 192,
      os2_usWinAscent |-> 900,
      os2_usWinDescent |-> 300,
      os2_sTypoAscender |-> 900,
      os2_sTypoDescender |-> -300,
      os2_sTypoLineGap |-> 0,
      os2_xAvgCharWidth |-> 600,
      os2_panose_bFamilyType |-> 2,
      os2_panose_bProportion |-> 9,
      head_flags |-> 8,
      head_macStyle |-> 0,
      head_yMin |-> -300,
      head_yMax |-> 900,
      hhea_ascent |-> 900,
      hhea_descent |-> -300,
      hhea_lineGap |-> 0,
      hhea_advanceWidthMax |-> 600,
      post_italicAngle |-> 0,
      post_isFixedPitch |-> 1,
      maxp_numGlyphs |-> Len(LetterGlyphs),
      glyphOrder |-> LetterGlyphs,
      glyf |-> [g \in Range(LetterGlyphs) |-> 1],
      hmtx |-> [g \in Range(LetterGlyphs) |-> 600],
      names |-> <<>>,
      cmap |-> << [platformID |-> 3, platEncID |-> 1,
                   cmap |-> [c \in 65..90 |-> Uppercase[c - 64]]] >> ]

StyleNames ==
    { <<"Regular">>, <<"Bold">>, <<"Bold", " ", "Italic">>, <<"Italic">>,
      <<"Black">>, <<"Extra", "Bold", " ", "Italic">>, <<"Light", " ", "Black">>,
      <<"Bold", " ", "Extra", "Bold">>, <<"Bold", "Italic">>, <<"Condensed">>,
      <<" ", "Semi", "Bold", " ", " ", "Condensed", " ">> }

\* fvar: no table; a wght axis (default 550.5, or 400); a wdth axis only
FvarInputs ==
    { <<>>,
      << [axisTag |-> "wght", defaultValue |-> 5505] >>,
      << [axisTag |-> "wdth", defaultValue |-> 1000],
         [axisTag |-> "wght", defaultValue |-> 4000] >>,
      << [axisTag |-> "wdth", defaultValue |-> 1000] >> }

StyleFonts ==
    { [BaseFont EXCEPT
          !.stylename = s,
          !.fvar_axes = a,
          !.tables = IF a = <<>> THEN @ ELSE @ \cup {"fvar"},
          !.os2_fsSelection = x,
          !.os2_usWeightClass = w] :
      s \in StyleNames, a \in FvarInputs, x \in {0, 64, 161, 65535}, w \in {400, 800} }

\* fields the flag rules overwrite, wrong or already right; hinted or not
FlagFonts ==
    { [BaseFont EXCEPT
          !.stylename = s,
          !.os2_fsType = t,
          !.head_macStyle = m,
          !.post_italicAngle = ia,
          !.head_flags = hf,
          !.tables = IF hinted THEN (@ \cup {"fpgm"}) \ {"gasp"} ELSE @] :
      s \in {<<"Regular">>, <<"Bold", " ", "Italic">>, <<"Bold", "Italic">>},
      t \in {0, 8}, m \in {0, 3, 32}, ia \in {0, -120}, hf \in {0, 8, 11},
      hinted \in BOOLEAN }

NameRecordPool ==
    { [nameID |-> 1,   platformID |-> 1, platEncID |-> 0, langID |-> 0, string |-> "Family"],
      [nameID |-> 15,  platformID |-> 1, platEncID |-> 0, langID |-> 0, string |-> "x"],
      [nameID |-> 19,  platformID |-> 1, platEncID |-> 0, langID |-> 0, string |-> "y"],
      [nameID |-> 15,  platformID |-> 3, platEncID |-> 1, langID |-> 1033, string |-> "x"],
      [nameID |-> 256, platformID |-> 1, platEncID |-> 0, langID |-> 0, string |-> "ss01"],
      [nameID |-> 15,  platformID |-> 1, platEncID |-> 0, langID |-> 1, string |-> "x-fr"] }

NameTables == UNION { [1..n -> NameRecordPool] : n \in 0..MaxNames }

NameFonts == { [BaseFont EXCEPT !.names = t] : t \in NameTables }

\* glyph orders .notdef, A, B, ...; the natural code point of a letter
GlyphOrders == { SubSeq(LetterGlyphs, 1, n) : n \in 2..MaxGlyphs }

Cp(g) == CHOOSE c \in 65..90 : Uppercase[c - 64] = g

NaturalMap(S) == [c \in {Cp(g) : g \in S} |-> Uppercase[c - 64]]

\* no subtable (<<>>), or one (3, 1) subtable mapping a subset of the glyphs
Ucs2Inputs(G) ==
    {<<>>} \cup { << [platformID |-> 3, platEncID |-> 1, cmap |-> NaturalMap(S)] >> :
                  S \in SUBSET G }

\* no subtable, or one (3, 10) subtable mapping a subset of the glyphs and, at
\* most, one Supplementary PUA-A code point
Ucs4Inputs(G, n) ==
    {<<>>}
    \cup { << [platformID |-> 3, platEncID |-> 10, cmap |-> NaturalMap(S)] >> :
           S \in SUBSET G }
    \cup { << [platformID |-> 3, platEncID |-> 10,
               cmap |-> MapSet(NaturalMap(S), PUA_A + k, g)] >> :
           S \in SUBSET G, k \in 0..(n - 1), g \in G }

CmapFonts ==
    UNION { { [BaseFont EXCEPT
                 !.glyphOrder = o,
                 !.maxp_numGlyphs = Len(o),
                 !.glyf = [g \in Range(o) |-> 1],
                 !.hmtx = [g \in Range(o) |-> 600],
                 !.cmap = t2 \o t4] :
              t2 \in Ucs2Inputs(Range(o) \ {".notdef"}),
              t4 \in Ucs4Inputs(Range(o) \ {".notdef"}, Len(o)) } :
            o \in GlyphOrders }

\* advance widths: the letters all w but Z, which has z; one more glyph, "space"
PitchMetrics ==
    { [g \in Range(LetterGlyphs) \cup {"space"} |->
          IF g = "space" THEN m[3] ELSE IF g = "Z" THEN m[2] ELSE m[1]] :
      m \in { <<600, 600, 0>>, <<600, 600, 1200>>, <<600, 600, 601>>,
              <<600, 601, 0>>, <<0, 0, 0>> } }

PitchFonts ==
    { [BaseFont EXCEPT
          !.glyphOrder = Append(LetterGlyphs, "space"),
          !.maxp_numGlyphs = Len(LetterGlyphs) + 1,
          !.glyf = [g \in Range(LetterGlyphs) \cup {"space"} |-> IF g = "space" THEN 0 ELSE 1],
          !.hmtx = m,
          !.hhea_advanceWidthMax = awm,
          !.os2_xAvgCharWidth = avg,
          !.post_isFixedPitch = fp,
          !.os2_panose_bFamilyType = ft,
          !.os2_panose_bProportion = bp] :
      m \in PitchMetrics, awm \in {600, 1200}, avg \in {600, 0}, fp \in {0, 1},
      ft \in {0, 2, 3, 4, 5}, bp \in {0, 3, 9} }

RuleInputs == StyleFonts \cup FlagFonts \cup NameFonts \cup CmapFonts \cup PitchFonts

(***************************************************************************)
(* The families the family operations are run on, and the families the     *)
(* reference catalog holds.                                                *)
(***************************************************************************)
MaxFamily == 3        \* fonts in an input family
MaxFamilyCalls == 1   \* family operations called in a row on one family

\* BaseFont with three glyphs only
SmallFont ==
    [BaseFont EXCEPT
        !.glyphOrder = <<".notdef", "A", "B">>,
        !.maxp_numGlyphs = 3,
        !.glyf = [g \in {".notdef", "A", "B"} |-> 1],
        !.hmtx = [g \in {".notdef", "A", "B"} |-> 600],
        !.cmap = << [platformID |-> 3, platEncID |-> 1,
                     cmap |-> [c \in 65..66 |-> Uppercase[c - 64]]] >>]

Metrics(f, winA, winD, typoA, typoD, typoG, hA, hD, hG, yMin, yMax) ==
    [f EXCEPT !.os2_usWinAscent = winA, !.os2_usWinDescent = winD,
              !.os2_sTypoAscender = typoA, !.os2_sTypoDescender = typoD,
              !.os2_sTypoLineGap = typoG,
              !.hhea_ascent = hA, !.hhea_descent = hD, !.hhea_lineGap = hG,
              !.head_yMin = yMin, !.head_yMax = yMax]

FontRegular == [SmallFont EXCEPT !.path = "Regular.ttf"]

FontBold ==
    Metrics([SmallFont EXCEPT !.path = "Bold.ttf", !.stylename = <<"Bold">>,
                             !.os2_fsSelection = 32, !.os2_usWeightClass = 700,
                             !.head_macStyle = 1],
            1000, 400, 800, -200, 100, 950, -250, 50, -350, 1100)

FontItalic ==
    Metrics([SmallFont EXCEPT !.path = "Italic.ttf", !.stylename = <<"Italic">>,
                             !.os2_fsSelection = 1, !.head_macStyle = 2,
                             !.post_italicAngle = -120],
            950, 250, 700, -300, 200, 0, 0, 0, 50, 700)

\* a variable font styled Regular, typographic metrics not enabled, an OS/2
\* version 5
FontLegacy ==
    Metrics([SmallFont EXCEPT !.path = "Legacy.ttf", !.os2_fsSelection = 64,
                              !.os2_version = 5, !.os2_fsType = 8,
                              !.tables = @ \cup {"fvar"},
                              !.fvar_axes = << [axisTag |-> "wght", defaultValue |-> 4000] >>],
            800, 200, 750, -250, 90, 800, -200, 0, -200, 800)

\* a style name without a weight name, and another family's name
FontCondensed ==
    [SmallFont EXCEPT !.path = "Condensed.ttf", !.stylename = <<"Condensed">>,
                      !.familyname = "Other"]

\* a COLR version 1 font without an SVG table
FontColr1 ==
    Metrics([SmallFont EXCEPT !.path = "Color.ttf", !.stylename = <<"Black">>,
                              !.tables = @ \cup {"COLR"}, !.colr_version = 1,
                              !.os2_fsSelection = 0, !.os2_fsType = 4],
            1200, 100, 600, -100, 10, 600, -100, 10, -500, 1000)

FamilyFontPool ==
    { FontRegular, FontBold, FontItalic, FontLegacy, FontCondensed, FontColr1 }

FamilyInputs == UNION { [1..n -> FamilyFontPool] : n \in 1..MaxFamily }

\* TTFont(path): the font a file holds
ReadFile(path) == CHOOSE f \in FamilyFontPool : f.path = path

FilesOf(fs) == [i \in DOMAIN fs |-> ReadFile(fs[i].path)]

GFRegular ==
    Metrics([SmallFont EXCEPT !.path = "GF-Regular.ttf"],
            1100, 350, 1000, -300, 0, 1000, -300, 0, -350, 1100)

GFBold ==
    Metrics([SmallFont EXCEPT !.path = "GF-Bold.ttf", !.stylename = <<"Bold">>,
                             !.os2_fsSelection = 32],
            1150, 360, 880, -120, 25, 1150, -360, 0, -360, 1150)

CatalogFamilies == { <<GFRegular>>, <<GFBold, GFRegular>> }

(***************************************************************************)
(* Spec: single rules called on one font, in any order, any number of      *)
(* times.  last records the latest call; last.again says that the call     *)
(* before it was a call of the same rule that returned, so that the latest *)
(* call is R applied to the font R left.                                   *)
(***************************************************************************)
NoCall == [rule |-> "none", pre |-> BaseFont, rv |-> None, exc |-> "none", again |-> FALSE]

NoFamilyCall == [op |-> "none", pre |-> <<>>, exc |-> "none", stage |-> "none",
                 include |-> FALSE, catalog |-> "none", calls |-> 0]

NoFixer == [font |-> BaseFont, path |-> "none", saveit |-> FALSE, messages |-> <<>>,
            fixes |-> <<>>, pc |-> "none"]

NoFixerHistory == [reported |-> FALSE, raised |-> FALSE, calls |-> 0]

RuleIdle ==
    /\ font = BaseFont
    /\ last = NoCall

FamilyIdle ==
    /\ fonts = <<>>
    /\ famlast = NoFamilyCall

FixerIdle ==
    /\ fixer = NoFixer
    /\ disk = <<>>
    /\ fxlast = NoFixerHistory

Call(rule, res) ==
    /\ font' = res.font
    /\ last' = [rule |-> rule, pre |-> font, rv |-> res.rv, exc |-> res.exc,
                again |-> last.rule = rule /\ last.exc = "none"]
    /\ UNCHANGED <<fonts, famlast, fixer, disk, fxlast>>

Call_fix_hinted_font == Call("fix_hinted_font", fix_hinted_font(font))
Call_fix_fs_type == Call("fix_fs_type", fix_fs_type(font))
Call_fix_weight_class == Call("fix_weight_class", fix_weight_class(font))
Call_fix_fs_selection == Call("fix_fs_selection", fix_fs_selection(font))
Call_fix_mac_style == Call("fix_mac_style", fix_mac_style(font))
Call_fix_italic_angle == Call("fix_italic_angle", fix_italic_angle(font))
Call_fix_pua == Call("fix_pua", fix_pua(font))
Call_fix_isFixedPitch == Call("fix_isFixedPitch", fix_isFixedPitch(font))
Call_drop_superfluous_mac_names ==
    Call("drop_superfluous_mac_names", drop_superfluous_mac_names(font))
Call_drop_mac_names == Call("drop_mac_names", drop_mac_names(font))

Init ==
    /\ font \in RuleInputs
    /\ last = NoCall
    /\ FamilyIdle
    /\ FixerIdle

Next ==
    \/ Call_fix_hinted_font
    \/ Call_fix_fs_type
    \/ Call_fix_weight_class
    \/ Call_fix_fs_selection
    \/ Call_fix_mac_style
    \/ Call_fix_italic_angle
    \/ Call_fix_pua
    \/ Call_fix_isFixedPitch
    \/ Call_drop_superfluous_mac_names
    \/ Call_drop_mac_names

Spec == Init /\ [][Next]_vars

(***************************************************************************)
(* SpecFont: fix_font, remove_tables and fix_colr_font called on one font  *)
(* that was read from a file.  font is the font object the caller holds;   *)
(* last.local is the font object the call worked on last (for fix_font,    *)
(* the object its name font is bound to at the end; for fix_colr_font, the *)
(* object it returned), last.file the font the file holds.                 *)
(***************************************************************************)
\* glyph orders and outlines (number of contours) of a COLR version 0 font:
\* one glyph; none empty; glyph 1 empty; glyph 2 empty; glyph 0 empty; none
\* empty and the name .null taken; none empty and both names taken
ColrGlyphs ==
    { [order |-> <<".notdef">>, contours |-> <<1>>],
      [order |-> <<".notdef", "A", "B">>, contours |-> <<1, 1, 1>>],
      [order |-> <<".notdef", "A", "B">>, contours |-> <<1, 0, 1>>],
      [order |-> <<".notdef", "A", "B">>, contours |-> <<1, 1, 0>>],
      [order |-> <<".notdef", "A", "B">>, contours |-> <<0, 1, 0>>],
      [order |-> <<".notdef", "A", ".null">>, contours |-> <<1, 1, 1>>],
      [order |-> <<".notdef", "A", ".null", "emptyglyph">>, contours |-> <<1, 1, 1, 1>>] }

WithGlyphs(f, g) ==
    [f EXCEPT !.glyphOrder = g.order,
              !.maxp_numGlyphs = Len(g.order),
              !.glyf = [n \in Range(g.order) |->
                           g.contours[CHOOSE k \in DOMAIN g.order : g.order[k] = n]],
              !.hmtx = [n \in Range(g.order) |-> 600],
              !.cmap = <<>>]

\* the color tables: none; COLR version 0 with TrueType outlines, for each
\* of ColrGlyphs; COLR version 0 with CFF outlines; versions 1 and 2
ColrFonts ==
    {SmallFont}
    \cup { WithGlyphs([SmallFont EXCEPT !.tables = @ \cup {"COLR"}], g) : g \in ColrGlyphs }
    \cup { [SmallFont EXCEPT !.tables = (@ \ {"glyf"}) \cup {"COLR", "CFF "}] }
    \cup { [SmallFont EXCEPT !.tables = @ \cup {"COLR"}, !.colr_version = v] : v \in {1, 2} }

\* what the source fixes read: style, flags, hinting, variation axes
SourceVariants ==
    { [stylename |-> <<"Regular">>, fsType |-> 0, extra |-> {}, axes |-> <<>>],
      [stylename |-> <<"Bold", " ", "Italic">>, fsType |-> 8, extra |-> {"fpgm"},
       axes |-> <<>>],
      [stylename |-> <<"Regular">>, fsType |-> 4, extra |-> {"fvar"},
       axes |-> << [axisTag |-> "wght", defaultValue |-> 4000] >>],
      [stylename |-> <<"Condensed">>, fsType |-> 8, extra |-> {}, axes |-> <<>>] }

\* tables a font tool left in the font
ByproductTables == { {}, {"TSI0", "TSI1", "prop"} }

Os2Versions == 0..5

FontInputs ==
    { [c EXCEPT !.path = "Font.ttf",
                !.stylename = v.stylename,
                !.os2_fsType = v.fsType,
                !.fvar_axes = v.axes,
                !.tables = (@ \cup v.extra) \cup t,
                !.os2_version = n] :
      c \in ColrFonts, v \in SourceVariants, t \in ByproductTables, n \in Os2Versions }

\* the tables argument of remove_tables; {} is None
TableRequests == { {}, {"TSI0", "glyf"}, {"FFTM", "DSIG"} }

FontCall(rule, caller, local, exc, args) ==
    /\ font' = caller
    /\ last' = [rule |-> rule, pre |-> font, rv |-> None, exc |-> exc,
                again |-> FALSE, local |-> local, file |-> last.file, args |-> args]
    /\ UNCHANGED <<fonts, famlast, fixer, disk, fxlast>>

Call_fix_font ==
    \E include \in BOOLEAN, name \in {"", "New"} :
        LET r == fix_font(font, last.file, include, IF include THEN "" ELSE name)
        IN  FontCall("fix_font", r.caller, r.local, r.exc,
                     [include |-> include, name |-> IF include THEN "" ELSE name,
                      tables |-> {}])

Call_remove_tables ==
    \E tables \in TableRequests :
        LET r == remove_tables(font, tables)
        IN  FontCall("remove_tables", r, r, "none",
                     [include |-> FALSE, name |-> "", tables |-> tables])

\* returned = fix_colr_font(font): the caller's font is changed when the
\* repair works in place
Call_fix_colr_font ==
    LET r == fix_colr_font(font, last.file)
    IN  FontCall("fix_colr_font", IF r.same THEN r.font ELSE font, r.font, r.exc,
                 [include |-> FALSE, name |-> "", tables |-> {}])

InitFont ==
    /\ font \in FontInputs
    /\ last = [rule |-> "none", pre |-> font, rv |-> None, exc |-> "none", again |-> FALSE,
               local |-> font, file |-> font,
               args |-> [include |-> FALSE, name |-> "", tables |-> {}]]
    /\ FamilyIdle
    /\ FixerIdle

NextFont ==
    \/ Call_fix_font
    \/ Call_remove_tables
    \/ Call_fix_colr_font

SpecFont == InitFont /\ [][NextFont]_vars

(***************************************************************************)
(* SpecFamily: the family operations called on one family, in any order.   *)
(***************************************************************************)
FamCall(op, res, stage, include, catalog) ==
    /\ famlast.calls < MaxFamilyCalls
    /\ fonts' = res.fonts
    /\ famlast' = [op |-> op, pre |-> fonts, exc |-> res.exc, stage |-> stage,
                   include |-> include, catalog |-> catalog,
                   calls |-> famlast.calls + 1]
    /\ UNCHANGED <<font, last, fixer, disk, fxlast>>

Call_fix_vertical_metrics ==
    FamCall("fix_vertical_metrics", fix_vertical_metrics(fonts), "metrics", FALSE, "none")

Call_inherit_vertical_metrics ==
    \E gf \in CatalogFamilies :
        FamCall("inherit_vertical_metrics", inherit_vertical_metrics(fonts, gf),
                "metrics", FALSE, "known")

Call_fix_family ==
    \E include \in BOOLEAN, name \in {""},
       catalog \in {"known", "unknown", "nokey"}, gf \in CatalogFamilies :
        LET r == fix_family(fonts, FilesOf(fonts), include, name, catalog, gf)
        IN  FamCall("fix_family", r, r.stage, include, catalog)

InitFamily ==
    /\ fonts \in FamilyInputs
    /\ famlast = NoFamilyCall
    /\ RuleIdle
    /\ FixerIdle

NextFamily ==
    \/ Call_fix_vertical_metrics
    \/ Call_inherit_vertical_metrics
    \/ Call_fix_family

SpecFamily == InitFamily /\ [][NextFamily]_vars

(***************************************************************************)
(* SpecFixer: a FontFixer bound to one font and a list of rules; fix() is  *)
(* called any number of times, then the fixer is torn down.  fxlast keeps  *)
(* what the rules gave back: reported says that a rule returned a true     *)
(* changed, raised that a fix() call ended with an exception.              *)
(***************************************************************************)
MaxFixes == 2        \* rules in the list fixes
MaxFixCalls == 2     \* calls of fix() on one fixer

RuleNames ==
    { "fix_hinted_font", "fix_fs_type", "fix_weight_class", "fix_fs_selection",
      "fix_mac_style", "fix_italic_angle", "fix_pua", "fix_isFixedPitch",
      "drop_superfluous_mac_names", "drop_mac_names" }

FixLists == UNION { [1..n -> RuleNames] : n \in 0..MaxFixes }

\* Bold Italic with the flags of a Regular, a Macintosh record to drop and an
\* unencoded glyph
FileDirty ==
    [BaseFont EXCEPT
        !.path = "Dirty.ttf",
        !.stylename = <<"Bold", " ", "Italic">>,
        !.os2_fsType = 8,
        !.names = << [nameID |-> 15, platformID |-> 1, platEncID |-> 0, langID |-> 0,
                      string |-> "x"] >>,
        !.cmap = << [platformID |-> 3, platEncID |-> 1,
                     cmap |-> [c \in 65..89 |-> Uppercase[c - 64]]] >>]

\* no weight name: fix_weight_class raises; fsType to reset
FileCondensed ==
    [BaseFont EXCEPT !.path = "Condensed.ttf", !.stylename = <<"Condensed">>,
                     !.os2_fsType = 8]

\* monospace, isFixedPitch not set, a stale advanceWidthMax: fix_isFixedPitch raises
FilePitch ==
    [BaseFont EXCEPT !.path = "Pitch.ttf", !.post_isFixedPitch = 0,
                     !.hhea_advanceWidthMax = 500]

FixerFiles == { BaseFont, FileDirty, FileCondensed, FilePitch }

Call_fix ==
    /\ fixer.pc = "live"
    /\ fxlast.calls < MaxFixCalls
    /\ LET r == FontFixer_fix(fixer)
       IN  /\ fixer' = r.fixer
           /\ fxlast' = [reported |-> fxlast.reported
                              \/ \E i \in DOMAIN r.trace :
                                    /\ r.trace[i].exc = "none"
                                    /\ r.trace[i].rv.kind \in {"bare", "pair"}
                                    /\ r.trace[i].rv.changed,
                         raised |-> fxlast.raised \/ r.exc # "none",
                         calls |-> fxlast.calls + 1]
    /\ UNCHANGED <<font, last, fonts, famlast, disk>>

Call_del ==
    /\ fixer.pc = "live"
    /\ disk' = FontFixer_del(fixer, disk)
    /\ fixer' = [fixer EXCEPT !.pc = "dead"]
    /\ UNCHANGED <<font, last, fonts, famlast, fxlast>>

InitFixer ==
    /\ \E f \in FixerFiles, fixes \in FixLists : fixer = FontFixer_init(f.path, f, fixes)
    /\ disk = <<>>
    /\ fxlast = NoFixerHistory
    /\ RuleIdle
    /\ FamilyIdle

NextFixer ==
    \/ Call_fix
    \/ Call_del

SpecFixer == InitFixer /\ [][NextFixer]_vars

(***************************************************************************)
(* Properties of the single rules (under Spec)                             *)
(***************************************************************************)
Returned == last.exc = "none"

SingleFontRules ==
    { "fix_fs_type", "fix_weight_class", "fix_fs_selection", "fix_mac_style",
      "fix_italic_angle", "fix_isFixedPitch", "drop_mac_names",
      "drop_superfluous_mac_names", "fix_pua", "fix_hinted_font" }

\* C2: every single-font rule is idempotent: when a rule has returned and is
\* called again on the font it left, the second call returns, reports no
\* change and leaves the font as it was.
C2_Idempotent ==
    (last.rule \in SingleFontRules /\ last.again)
        => (Returned /\ ~last.rv.changed /\ font = last.pre)

\* the style name's words and the weight names among them
StyleWords(f) == Range(split(f.stylename))

WeightWords(f) == {WEIGHT_NAMES[i][1] : i \in DOMAIN WEIGHT_NAMES} \cap StyleWords(f)

WeightValue(w) == WEIGHT_NAMES[CHOOSE i \in DOMAIN WEIGHT_NAMES : WEIGHT_NAMES[i][1] = w][2]

WghtAxes(f) == {i \in DOMAIN f.fvar_axes : f.fvar_axes[i].axisTag = "wght"}

\* the integer part of a value kept in tenths
Truncated(v, n) == n * 10 <= v /\ v < (n + 1) * 10

\* C3: fix_weight_class stores the reference weight: the truncated default
\* of the wght axis when the font has one, whatever the style name; else the
\* value of a longest weight name among the style name's words; else 400
\* when Italic is a word; else it raises ValueError and leaves usWeightClass
\* alone.  It reports a change exactly when the stored value differs from
\* the one before.
C3_WeightClass ==
    last.rule = "fix_weight_class" =>
        LET pre == last.pre
            new == font.os2_usWeightClass
        IN  /\ IF "fvar" \in pre.tables /\ WghtAxes(pre) # {}
               THEN /\ Returned
                    /\ \E i \in WghtAxes(pre) : Truncated(pre.fvar_axes[i].defaultValue, new)
               ELSE IF WeightWords(pre) # {}
               THEN /\ Returned
                    /\ \E w \in WeightWords(pre) :
                          /\ \A u \in WeightWords(pre) : StrLen(u) <= StrLen(w)
                          /\ new = WeightValue(w)
               ELSE IF <<"Italic">> \in StyleWords(pre)
               THEN Returned /\ new = 400
               ELSE last.exc = "ValueError" /\ new = pre.os2_usWeightClass
            /\ Returned => (last.rv.changed <=> new # pre.os2_usWeightClass)
            /\ font = [pre EXCEPT !.os2_usWeightClass = new]

\* a variable font styled with a weight name gets the axis default, 550
C3_Witness ==
    /\ last.rule = "fix_weight_class"
    /\ "fvar" \in last.pre.tables
    /\ WeightWords(last.pre) # {}
    /\ font.os2_usWeightClass = 550
    /\ last.pre.os2_usWeightClass = 800
    /\ last.rv.changed

BitsSet(x) == {i \in 0..15 : Bit(x, i) = 1}

\* C4: after fix_fs_selection bit 7 is as before, bit 0 is set iff Italic is
\* a word of the style name, bit 5 iff Bold is, bit 6 iff neither is, and
\* every other bit is clear.
C4_FsSelection ==
    last.rule = "fix_fs_selection" =>
        LET words == StyleWords(last.pre)
            italic == <<"Italic">> \in words
            bold == <<"Bold">> \in words
        IN  /\ Returned
            /\ BitsSet(font.os2_fsSelection) =
                  (BitsSet(last.pre.os2_fsSelection) \cap {7})
                  \cup (IF italic THEN {0} ELSE {})
                  \cup (IF bold THEN {5} ELSE {})
                  \cup (IF ~italic /\ ~bold THEN {6} ELSE {})

\* Bold Italic with every bit set before: bits 0, 5 and 7 are left
C4_Witness ==
    /\ last.rule = "fix_fs_selection"
    /\ last.pre.stylename = <<"Bold", " ", "Italic">>
    /\ last.pre.os2_fsSelection = 65535
    /\ BitsSet(font.os2_fsSelection) = {0, 5, 7}

\* the UCS-4 subtable of a font: the first (3, 10) subtable, 0 if none
Ucs4(f) == getcmap(f.cmap, 3, 10)

GlyphIndex(f, g) == (CHOOSE k \in DOMAIN f.glyphOrder : f.glyphOrder[k] = g) - 1

\* C7: fix_pua on a font with an unencoded glyph leaves a UCS-4 subtable
\* (created if absent, from the UCS-2 subtable's mappings if there is one)
\* that maps 0xF0000 + i to each unencoded glyph, at index i, and reports a
\* change; a second fix_pua on the result reports no change and adds no
\* mapping.
C7_Pua ==
    last.rule = "fix_pua" =>
        LET pre == last.pre
            un == get_unencoded_glyphs(pre)
        IN  /\ (un # {} /\ ~last.again) =>
                  /\ Returned /\ last.rv.changed
                  /\ Ucs4(font) # 0
                  /\ \A g \in un :
                        /\ (PUA_A + GlyphIndex(pre, g)) \in DOMAIN font.cmap[Ucs4(font)].cmap
                        /\ font.cmap[Ucs4(font)].cmap[PUA_A + GlyphIndex(pre, g)] = g
                  /\ (Ucs4(pre) = 0 /\ Ucs2Index(pre.cmap) # 0) =>
                        \A c \in DOMAIN pre.cmap[Ucs2Index(pre.cmap)].cmap :
                            /\ c \in DOMAIN font.cmap[Ucs4(font)].cmap
                            /\ font.cmap[Ucs4(font)].cmap[c] = pre.cmap[Ucs2Index(pre.cmap)].cmap[c]
            /\ last.again => (Returned /\ ~last.rv.changed /\ font = pre)

\* what C7 says of the first call alone
C7_FirstCall ==
    (last.rule = "fix_pua" /\ ~last.again) => C7_Pua

LettersIn(f) == Range(Uppercase) \cap DOMAIN f.hmtx

Wide(f) == {g \in DOMAIN f.hmtx : f.hmtx[g] > 0}

\* n is the average of the positive advance widths, rounded to the nearest integer
IsRoundedAverage(f, n) ==
    LET sum == SumWidths(f.hmtx, Wide(f))
        k == Cardinality(Wide(f))
    IN  (2 * n - 1) * k <= 2 * sum /\ 2 * sum < (2 * n + 1) * k

\* C8: fix_isFixedPitch, whatever the fields held before: when A-Z all have
\* the same advance width it returns with isFixedPitch = 1, advanceWidthMax
\* the maximum and xAvgCharWidth the rounded average of the positive advance
\* widths, and bProportion set from bFamilyType (2: 9; 3 or 5: 3; 0: family
\* type 2 and proportion 9); when the widths differ isFixedPitch and
\* bProportion are 0.
C8_FixedPitch ==
    (last.rule = "fix_isFixedPitch" /\ LettersIn(last.pre) = Range(Uppercase)
        /\ Wide(last.pre) # {}) =>
        LET pre == last.pre
            ft == pre.os2_panose_bFamilyType
        IN  IF \A a, b \in Range(Uppercase) : pre.hmtx[a] = pre.hmtx[b]
            THEN /\ Returned
                 /\ font.post_isFixedPitch = 1
                 /\ \A g \in Wide(pre) : pre.hmtx[g] <= font.hhea_advanceWidthMax
                 /\ \E g \in Wide(pre) : pre.hmtx[g] = font.hhea_advanceWidthMax
                 /\ IsRoundedAverage(pre, font.os2_xAvgCharWidth)
                 /\ ft = 2 => font.os2_panose_bProportion = 9
                 /\ ft \in {3, 5} => font.os2_panose_bProportion = 3
                 /\ ft = 0 => (font.os2_panose_bFamilyType = 2
                               /\ font.os2_panose_bProportion = 9)
            ELSE /\ Returned
                 /\ font.post_isFixedPitch = 0
                 /\ font.os2_panose_bProportion = 0

IsMac(r) == r.platformID = 1

\* C9: drop_superfluous_mac_names removes every Macintosh record whose name
\* id is outside the allow-list and no other record, reports a change iff
\* it removed a record, and a second call reports no change.
C9_DropSuperfluous ==
    last.rule = "drop_superfluous_mac_names" =>
        /\ Returned
        /\ font.names = SelectSeq(last.pre.names,
                                  LAMBDA r : ~(IsMac(r) /\ r.nameID \notin keep_ids))
        /\ last.rv.changed <=> font.names # last.pre.names
        /\ last.again => ~last.rv.changed

(***************************************************************************)
(* Properties of the family operations (under SpecFamily)                  *)
(***************************************************************************)
VerticalMetrics(f) ==
    << f.os2_usWinAscent, f.os2_usWinDescent, f.os2_sTypoAscender, f.os2_sTypoDescender,
       f.os2_sTypoLineGap, f.hhea_ascent, f.hhea_descent, f.hhea_lineGap >>

\* the font styled Regular, else the first font
IsSource(fs, s) ==
    /\ s \in DOMAIN fs
    /\ IF \E i \in DOMAIN fs : fs[i].stylename = <<"Regular">>
       THEN /\ fs[s].stylename = <<"Regular">>
            /\ \A i \in 1..(s - 1) : fs[i].stylename # <<"Regular">>
       ELSE s = 1

\* every font has the source font's eight vertical metrics and bit 7 set
Harmonized(fs, before) ==
    /\ Len(fs) = Len(before)
    /\ \A s \in DOMAIN before : IsSource(before, s) =>
          \A i \in DOMAIN fs :
              /\ VerticalMetrics(fs[i]) = VerticalMetrics(fs[s])
              /\ 7 \in BitsSet(fs[i].os2_fsSelection)

\* C5: after fix_vertical_metrics on a non-empty family every font has the
\* source font's value for each of the eight vertical-metric fields, and
\* every font has fsSelection bit 7 set.
C5_SameMetrics ==
    (famlast.op = "fix_vertical_metrics" /\ famlast.pre # <<>>) =>
        (famlast.exc = "none" /\ Harmonized(fonts, famlast.pre))

\* three fonts whose metrics all differed, the source not the first of them
C5_Witness ==
    /\ famlast.op = "fix_vertical_metrics"
    /\ Len(famlast.pre) = 3
    /\ \A i, j \in 1..3 :
          i # j => VerticalMetrics(famlast.pre[i]) # VerticalMetrics(famlast.pre[j])
    /\ IsSource(famlast.pre, 3)
    /\ Harmonized(fonts, famlast.pre)

\* the win values bound the glyph extents of every font of the family
WinBoundsFamily(fs) ==
    \A i, j \in DOMAIN fs :
        /\ fs[i].os2_usWinAscent >= fs[j].head_yMax
        /\ fs[i].os2_usWinDescent >= -fs[j].head_yMin
        /\ fs[i].os2_usWinDescent >= 0

\* C6: after fix_vertical_metrics, on every font usWinAscent is at least the
\* largest glyph yMax and usWinDescent, an absolute value, at least the
\* depth of the smallest glyph yMin of any font of the family.
C6_WinBounds ==
    (famlast.op = "fix_vertical_metrics" /\ famlast.pre # <<>>) =>
        /\ \A i \in DOMAIN fonts :
              /\ fonts[i].head_yMax = famlast.pre[i].head_yMax
              /\ fonts[i].head_yMin = famlast.pre[i].head_yMin
        /\ WinBoundsFamily(fonts)

\* the win values differed before, and the extreme extents are those of a
\* font that is not the source
C6_Witness ==
    /\ famlast.op = "fix_vertical_metrics"
    /\ Len(famlast.pre) = 3
    /\ IsSource(famlast.pre, 1)
    /\ \E i \in 2..3 :
          /\ famlast.pre[i].os2_usWinAscent # famlast.pre[1].os2_usWinAscent
          /\ famlast.pre[i].head_yMax > famlast.pre[1].head_yMax
          /\ famlast.pre[i].head_yMin < famlast.pre[1].head_yMin
          /\ famlast.pre[1].os2_usWinAscent < famlast.pre[i].head_yMax
    /\ WinBoundsFamily(fonts)

\* C10: in fix_family with the source fixes asked for, once fix_font went
\* over every font, every answer of the reference catalog (known, unknown,
\* no credentials) leaves fix_family without an exception and the family
\* with harmonized vertical metrics that bound its glyph extents.
C10_CatalogNonFatal ==
    (famlast.op = "fix_family" /\ famlast.include /\ famlast.stage = "metrics") =>
        /\ famlast.catalog \in {"known", "unknown", "nokey"}
        /\ famlast.exc = "none"
        /\ Harmonized(fonts, famlast.pre)
        /\ WinBoundsFamily(fonts)

\* the credentials are missing and the fonts' metrics differed
C10_Witness ==
    /\ famlast.op = "fix_family" /\ famlast.include /\ famlast.stage = "metrics"
    /\ famlast.catalog = "nokey"
    /\ Len(famlast.pre) >= 2
    /\ VerticalMetrics(famlast.pre[1]) # VerticalMetrics(famlast.pre[2])
    /\ Harmonized(fonts, famlast.pre)

(***************************************************************************)
(* Properties of the FontFixer (under SpecFixer)                           *)
(***************************************************************************)
\* C1: nothing is saved while the fixer is in use; teardown saves the font
\* once, to path + ".fix", if a rule reported a change, and writes nothing
\* if none did, also when a fix() call ended with an exception.
C1_SaveIffChanged ==
    /\ fixer.pc = "live" => disk = <<>>
    /\ fixer.pc = "dead" =>
          IF fxlast.reported
          THEN disk = << [path |-> <<fixer.path, ".fix">>, font |-> fixer.font] >>
          ELSE disk = <<>>

\* torn down after a fix() call in which one rule reported a change and a
\* later one raised: the font was saved
C1_Witness ==
    /\ fixer.pc = "dead"
    /\ fxlast.raised
    /\ fxlast.reported
    /\ Len(disk) = 1

(***************************************************************************)
(* Properties of fix_font, remove_tables and the COLR repair (under        *)
(* SpecFont)                                                               *)
(***************************************************************************)
\* the tables a remove_tables call was asked to remove
Requested == IF last.args.tables = {} THEN UNWANTED_TABLES ELSE last.args.tables

\* C12: remove_tables removes exactly the tables that are disallowed,
\* present and requested (every disallowed table when no list is given); a
\* requested table outside the disallowed set stays, a requested table the
\* font lacks is no error, and nothing else of the font changes.
C12_RemoveTables ==
    last.rule = "remove_tables" =>
        /\ last.exc = "none"
        /\ \A t \in last.pre.tables :
              t \in font.tables <=> ~(t \in UNWANTED_TABLES /\ t \in Requested)
        /\ font.tables \subseteq last.pre.tables
        /\ font = [last.pre EXCEPT !.tables = font.tables]

\* TSI0 and glyf were requested of a font that has TSI0, TSI1 and glyf: TSI0
\* went, the others stayed
C12_Witness ==
    /\ last.rule = "remove_tables"
    /\ last.args.tables = {"TSI0", "glyf"}
    /\ {"TSI0", "TSI1", "glyf"} \subseteq last.pre.tables
    /\ "TSI0" \notin font.tables
    /\ {"TSI1", "glyf"} \subseteq font.tables

FontReturned == last.exc = "none"

\* C14: fix_font clamps the OS/2 version down to 4: after fix_font the
\* version is the smaller of the version before and 4, so it never grew.
C14_VersionClamp ==
    (last.rule = "fix_font" /\ FontReturned) =>
        /\ font.os2_version = (IF last.pre.os2_version < 4 THEN last.pre.os2_version ELSE 4)
        /\ font.os2_version <= last.pre.os2_version

\* C14, amended: after fix_font the OS/2 version is 4 when it was above 1
\* (5 is lowered, 2 and 3 are raised) and unchanged when it was 0 or 1.
C14_FourUnlessBelowTwo ==
    (last.rule = "fix_font" /\ FontReturned) =>
        font.os2_version = (IF last.pre.os2_version > 1 THEN 4 ELSE last.pre.os2_version)

\* a font of OS/2 version 5 went through fix_font and has version 4
C14_Witness ==
    /\ last.rule = "fix_font" /\ FontReturned
    /\ last.pre.os2_version = 5
    /\ font.os2_version = 4

\* the source fixes and the COLR repair show on the font f, which went into
\* fix_font as before
FixesVisible(f, before) ==
    /\ f.tables \cap UNWANTED_TABLES = {}
    /\ f.os2_fsType = 0
    /\ ~fix_fs_selection(f).rv.changed
    /\ ~fix_mac_style(f).rv.changed
    /\ ~fix_weight_class(f).rv.changed
    /\ ~fix_italic_angle(f).rv.changed
    /\ (Has(before, "COLR") /\ before.colr_version = 1) => Has(f, "SVG ")
    /\ (Has(before, "COLR") /\ before.colr_version = 0 /\ before.maxp_numGlyphs >= 2) =>
          f.glyf[f.glyphOrder[2]] = 0

\* C11: fix_font changes the caller's font in place: when
\* fix_font(font, include_source_fixes=True) has returned, the table pruning,
\* fsType, fsSelection, macStyle, usWeightClass, italicAngle and the COLR
\* repair show on the font the caller passed, also for a font with a COLR
\* table, and the font the fixes were applied to is the caller's.
C11_InPlace ==
    (last.rule = "fix_font" /\ last.args.include /\ FontReturned) =>
        /\ FixesVisible(font, last.pre)
        /\ font = last.local

\* what C11 says holds of every font but a COLR version 1 font without an
\* SVG table
C11_InPlaceUnlessColr1 ==
    (last.rule = "fix_font" /\ last.args.include /\ FontReturned
        /\ ~(Has(last.pre, "COLR") /\ last.pre.colr_version = 1 /\ ~Has(last.pre, "SVG "))) =>
        C11_InPlace

\* the glyphs of f with an empty outline
EmptyGlyphs(f) == {g \in Range(f.glyphOrder) : f.glyf[g] = 0}

\* glyph 1 of f has an empty outline
EmptyAtOne(f) == Len(f.glyphOrder) >= 2 /\ f.glyphOrder[2] \in EmptyGlyphs(f)

\* what C13 says of a COLR version 0 font before and the font returned
ColrV0Repaired(before, returned) ==
    IF Len(before.glyphOrder) < 2 \/ EmptyAtOne(before)
    THEN returned = before
    ELSE /\ EmptyAtOne(returned)
         /\ IF EmptyGlyphs(before) # {}
            THEN /\ returned.glyphOrder[2] \in EmptyGlyphs(before)
                 /\ Len(returned.glyphOrder) = Len(before.glyphOrder)
                 /\ Range(returned.glyphOrder) = Range(before.glyphOrder)
            ELSE /\ returned.glyphOrder[2] \notin Range(before.glyphOrder)
                 /\ returned.hmtx[returned.glyphOrder[2]] = 0
                 /\ Len(returned.glyphOrder) = Len(before.glyphOrder) + 1
                 /\ Range(returned.glyphOrder) =
                        Range(before.glyphOrder) \cup {returned.glyphOrder[2]}

\* C13: the COLR version 0 repair returns a font with fewer than 2 glyphs,
\* or with an empty glyph 1, unchanged; else the font returned has an empty
\* glyph at index 1: an empty glyph of the font moved there, the glyph count
\* as before, when it has one, a new empty glyph of advance 0 inserted there,
\* the glyph count one more, when it has none.  A COLR version other than 0
\* or 1 raises the unsupported-version error.
C13_ColrV0 ==
    (last.rule = "fix_colr_font" /\ Has(last.pre, "COLR")) =>
        /\ last.pre.colr_version = 0 =>
              (FontReturned /\ ColrV0Repaired(last.pre, last.local))
        /\ last.pre.colr_version \notin {0, 1} => last.exc = "NotImplementedError"

\* what C13 says holds of a font with a glyf table in which an empty glyph
\* exists or one of the names .null and emptyglyph is free
C13_ColrV0Glyf ==
    (last.rule = "fix_colr_font" /\ Has(last.pre, "COLR") /\ Has(last.pre, "glyf")
        /\ (EmptyGlyphs(last.pre) # {}
            \/ ~({".null", "emptyglyph"} \subseteq Range(last.pre.glyphOrder)))) =>
        C13_ColrV0

\* the sequence s without g
Without(s, g) == SelectSeq(s, LAMBDA x : x # g)

\* C15: the COLR version 0 repair leaves glyph 0 where it is: whichever way
\* it takes, the glyph at index 0 of the font returned is the glyph that was
\* at index 0, and the glyphs other than the one put at index 1 keep their
\* order.
C15_KeepsGlyphZero ==
    (last.rule = "fix_colr_font" /\ Has(last.pre, "COLR") /\ last.pre.colr_version = 0
        /\ FontReturned) =>
        /\ last.local.glyphOrder[1] = last.pre.glyphOrder[1]
        /\ Len(last.local.glyphOrder) >= 2 =>
              Without(last.local.glyphOrder, last.local.glyphOrder[2])
                  = Without(last.pre.glyphOrder, last.local.glyphOrder[2])

\* what C15 says holds when glyph 0 has an outline
C15_KeepsOutlinedGlyphZero ==
    (last.rule = "fix_colr_font" /\ last.pre.glyf[last.pre.glyphOrder[1]] # 0) =>
        C15_KeepsGlyphZero

=============================================================================
